---- MODULE Spec2Model ----
(***************************************************************************)
(* Model of readthedocs/projects/version_handling.py: failsafe parsing of  *)
(* version strings, the comparable key, the default (semantic) sort, the   *)
(* stable-version resolver and the generic sort with its three adapters.   *)
(*                                                                         *)
(* A string is a sequence of characters; a character is a one-letter       *)
(* string, or a name "U+XXXX" for a non-ASCII code point.  The character   *)
(* set is lower-case letters, digits, "!", "-", ".", "_" and four          *)
(* non-ASCII code points: no whitespace, no upper case and no "+", so the  *)
(* whitespace stripping, case folding and local-version part of            *)
(* packaging's grammar are outside the model.                              *)
(*                                                                         *)
(* A Python call's outcome is a record [exc, val]: exc is "" when the call *)
(* returns and the exception's class name when it raises; val is <<>> for  *)
(* None, <<v>> for a single value v, and the list itself for a list.       *)
(***************************************************************************)
EXTENDS Integers, Sequences, FiniteSets, TLC

VARIABLES call, version_string, repo_type, version_list,
          latest_stable_at_beginning, raw_pattern, ret

vars == <<call, version_string, repo_type, version_list,
          latest_stable_at_beginning, raw_pattern, ret>>

---------------------------------------------------------------------------
(* Bounds *)

\* Longest generated version string (characters).
MaxLen == 3
\* Longest generated version list (records).
MaxListLen == 4

---------------------------------------------------------------------------
(* Characters and strings *)

\* The ASCII characters of the model in code-point order.
AsciiChars ==
    << "!", "+", "-", ".", "0", "1", "2", "3", "4", "5", "6", "7", "8", "9", "_",
       "a", "b", "c", "d", "e", "f", "g", "h", "i", "j", "k", "l", "m",
       "n", "o", "p", "q", "r", "s", "t", "u", "v", "w", "x", "y", "z" >>

\* The non-ASCII characters of the model in code-point order: e-acute,
\* combining acute accent, rightwards arrow, fullwidth digit one.
NonAsciiChars == << "U+00E9", "U+0301", "U+2192", "U+FF11" >>

AllChars == AsciiChars \o NonAsciiChars

\* ord(c): the position in code-point order (order-isomorphic to the code point).
Ord(c) == CHOOSE i \in 1..Len(AllChars) : AllChars[i] = c

IsAscii(c) == \E i \in 1..Len(AsciiChars) : AsciiChars[i] = c

\* unicodedata.normalize("NFKD", c) of one character.
NFKDChar(c) ==
    IF c = "U+00E9" THEN << "e", "U+0301" >>
    ELSE IF c = "U+FF11" THEN << "1" >>
    ELSE << c >>

RECURSIVE NFKD(_)
NFKD(s) == IF s = <<>> THEN <<>> ELSE NFKDChar(Head(s)) \o NFKD(Tail(s))

\* s.encode("ascii", "ignore").decode("ascii"): the non-ASCII characters dropped.
AsciiIgnore(s) == SelectSeq(s, IsAscii)

\* kw occurs in s at position i.
MatchAt(s, i, kw) ==
    /\ i + Len(kw) - 1 <= Len(s)
    /\ \A k \in 1..Len(kw) : s[i + k - 1] = kw[k]

\* ".x" in s
HasDotX(s) == \E i \in 1..Len(s) : MatchAt(s, i, << ".", "x" >>)

\* s.replace(".x", ".999999"): every occurrence, left to right.
RECURSIVE ReplaceDotX(_)
ReplaceDotX(s) ==
    IF s = <<>> THEN <<>>
    ELSE IF MatchAt(s, 1, << ".", "x" >>)
         THEN << ".", "9", "9", "9", "9", "9", "9" >> \o ReplaceDotX(SubSeq(s, 3, Len(s)))
         ELSE << Head(s) >> \o ReplaceDotX(Tail(s))

Digits == << "0", "1", "2", "3", "4", "5", "6", "7", "8", "9" >>

IsDigit(c) == \E i \in 1..10 : Digits[i] = c

DigitVal(c) == (CHOOSE i \in 1..10 : Digits[i] = c) - 1

\* The position after the longest run of digits of s that starts at i.
RECURSIVE DigitsEnd(_, _)
DigitsEnd(s, i) == IF i <= Len(s) /\ IsDigit(s[i]) THEN DigitsEnd(s, i + 1) ELSE i

\* int(s[i..j-1]) of a run of digits.
RECURSIVE NumVal(_, _, _)
NumVal(s, i, j) == IF j <= i THEN 0 ELSE NumVal(s, i, j - 1) * 10 + DigitVal(s[j - 1])

\* str(n) of a natural number.
RECURSIVE IntToStr(_)
IntToStr(n) == IF n < 10 THEN << Digits[n + 1] >>
               ELSE IntToStr(n \div 10) \o << Digits[(n % 10) + 1] >>

---------------------------------------------------------------------------
(* packaging.version.Version: the PEP 440 grammar and ordering.            *)
(* The pattern is                                                          *)
(*   v? (N!)? N(.N)* ([-_.]?(alpha|a|beta|b|preview|pre|c|rc)[-_.]?N?)?    *)
(*      (-N | [-_.]?(post|rev|r)[-_.]?N?)? ([-_.]?dev[-_.]?N?)?            *)
(*      followed by an optional local version, + L [-_.] L ... with each   *)
(*      L a run of letters and digits,                                     *)
(* matched against the whole string.  Each optional group is tried at its  *)
(* position and skipped when it does not match; no later group can use    *)
(* what a shorter match of an earlier group would leave, so the first      *)
(* (greedy) match decides.                                                 *)

Seps == { "-", "_", "." }

IsSepAt(s, i) == i <= Len(s) /\ s[i] \in Seps

\* The pre-release spellings, longest first, with the letter each normalises to.
PreKeywords ==
    << << << "p", "r", "e", "v", "i", "e", "w" >>, "rc" >>,
       << << "a", "l", "p", "h", "a" >>, "a" >>,
       << << "b", "e", "t", "a" >>, "b" >>,
       << << "p", "r", "e" >>, "rc" >>,
       << << "r", "c" >>, "rc" >>,
       << << "a" >>, "a" >>,
       << << "b" >>, "b" >>,
       << << "c" >>, "rc" >> >>

PostKeywords == << << "p", "o", "s", "t" >>, << "r", "e", "v" >>, << "r" >> >>

DevKeyword == << "d", "e", "v" >>

\* The release segment N(.N)* from position i: the numbers, and the position after.
RECURSIVE ReleaseTail(_, _)
ReleaseTail(s, i) ==
    IF i + 1 <= Len(s) /\ s[i] = "." /\ IsDigit(s[i + 1])
    THEN LET j == DigitsEnd(s, i + 1)
             rest == ReleaseTail(s, j)
         IN [nums |-> << NumVal(s, i + 1, j) >> \o rest.nums, pos |-> rest.pos]
    ELSE [nums |-> <<>>, pos |-> i]

\* [-_.]?N? after a keyword that ends before position k: the number (0 when absent).
NumberAfter(s, k) ==
    LET k2 == IF IsSepAt(s, k) THEN k + 1 ELSE k
        k3 == DigitsEnd(s, k2)
    IN [n |-> IF k3 > k2 THEN NumVal(s, k2, k3) ELSE 0, pos |-> k3]

\* The pre-release group at position i: val is <<>> when the group is absent.
PreAt(s, i) ==
    LET j == IF IsSepAt(s, i) THEN i + 1 ELSE i
        hits == { n \in 1..Len(PreKeywords) : MatchAt(s, j, PreKeywords[n][1]) }
    IN IF hits = {} THEN [val |-> <<>>, pos |-> i]
       ELSE LET n == CHOOSE m \in hits : \A o \in hits : m <= o
                num == NumberAfter(s, j + Len(PreKeywords[n][1]))
            IN [val |-> << PreKeywords[n][2], num.n >>, pos |-> num.pos]

\* The post-release group at position i: -N, or [-_.]?(post|rev|r)[-_.]?N?.
PostAt(s, i) ==
    IF i + 1 <= Len(s) /\ s[i] = "-" /\ IsDigit(s[i + 1])
    THEN LET j == DigitsEnd(s, i + 1)
         IN [val |-> << NumVal(s, i + 1, j) >>, pos |-> j]
    ELSE LET j == IF IsSepAt(s, i) THEN i + 1 ELSE i
             hits == { n \in 1..Len(PostKeywords) : MatchAt(s, j, PostKeywords[n]) }
         IN IF hits = {} THEN [val |-> <<>>, pos |-> i]
            ELSE LET n == CHOOSE m \in hits : \A o \in hits : m <= o
                     num == NumberAfter(s, j + Len(PostKeywords[n]))
                 IN [val |-> << num.n >>, pos |-> num.pos]

\* The development-release group at position i.
DevAt(s, i) ==
    LET j == IF IsSepAt(s, i) THEN i + 1 ELSE i
    IN IF MatchAt(s, j, DevKeyword)
       THEN LET num == NumberAfter(s, j + Len(DevKeyword))
            IN [val |-> << num.n >>, pos |-> num.pos]
       ELSE [val |-> <<>>, pos |-> i]

IsAlnum(c) == IsAscii(c) /\ c \notin { "!", "+", "-", ".", "_" }

\* The position after the longest run of letters and digits of s that starts at i.
RECURSIVE AlnumEnd(_, _)
AlnumEnd(s, i) == IF i <= Len(s) /\ IsAlnum(s[i]) THEN AlnumEnd(s, i + 1) ELSE i

\* A part of the local version: int(part) as its digits when it is a number,
\* the part itself otherwise.
LocalPart(s, i, j) ==
    IF \A k \in i..(j - 1) : IsDigit(s[k]) THEN IntToStr(NumVal(s, i, j)) ELSE SubSeq(s, i, j - 1)

\* L([-_.]L)* from position i: the parts, and the position after (i itself
\* when no part starts there).
RECURSIVE LocalParts(_, _)
LocalParts(s, i) ==
    LET j == AlnumEnd(s, i)
    IN IF j = i THEN [parts |-> <<>>, pos |-> i]
       ELSE IF IsSepAt(s, j) /\ AlnumEnd(s, j + 1) > j + 1
            THEN LET rest == LocalParts(s, j + 1)
                 IN [parts |-> << LocalPart(s, i, j) >> \o rest.parts, pos |-> rest.pos]
            ELSE [parts |-> << LocalPart(s, i, j) >>, pos |-> j]

\* The local version group at position i: val is <<>> when the group is absent.
LocalAt(s, i) ==
    IF i <= Len(s) /\ s[i] = "+" /\ AlnumEnd(s, i + 1) > i + 1
    THEN LET l == LocalParts(s, i + 1) IN [val |-> l.parts, pos |-> l.pos]
    ELSE [val |-> <<>>, pos |-> i]

\* Version(s): the parsed version, or InvalidVersion raised.
Version(s) ==
    LET p0 == IF MatchAt(s, 1, << "v" >>) THEN 2 ELSE 1
        e1 == DigitsEnd(s, p0)
        hasEpoch == e1 > p0 /\ e1 <= Len(s) /\ s[e1] = "!"
        p1 == IF hasEpoch THEN e1 + 1 ELSE p0
        r1 == DigitsEnd(s, p1)
    IN IF r1 = p1 THEN [exc |-> "InvalidVersion", val |-> <<>>]
       ELSE LET tail == ReleaseTail(s, r1)
                pre == PreAt(s, tail.pos)
                post == PostAt(s, pre.pos)
                dev == DevAt(s, post.pos)
                local == LocalAt(s, dev.pos)
            IN IF local.pos # Len(s) + 1 THEN [exc |-> "InvalidVersion", val |-> <<>>]
               ELSE [exc |-> "",
                     val |-> << [cls |-> "Version",
                                 epoch |-> IF hasEpoch THEN NumVal(s, p0, e1) ELSE 0,
                                 release |-> << NumVal(s, p1, r1) >> \o tail.nums,
                                 pre |-> pre.val,
                                 post |-> post.val,
                                 dev |-> dev.val,
                                 local |-> local.val] >>]

\* Version.is_prerelease
is_prerelease(v) == v.dev # <<>> \/ v.pre # <<>>

\* The release with its trailing zeros dropped.
RECURSIVE StripTrailingZeros(_)
StripTrailingZeros(r) ==
    IF r # <<>> /\ r[Len(r)] = 0 THEN StripTrailingZeros(SubSeq(r, 1, Len(r) - 1)) ELSE r

PreRank(letter) == IF letter = "a" THEN 1 ELSE IF letter = "b" THEN 2 ELSE 3

\* The local version in Version._key: a number is (n, ""), a word is
\* (-Infinity, word); flattened, a number is 2, n and a word is 1, its code
\* points, 0 (a word sorts below a number, a prefix below a longer word).
RECURSIVE LocalKey(_)
LocalKey(parts) ==
    IF parts = <<>> THEN <<>>
    ELSE LET part == Head(parts)
         IN ( IF \A k \in 1..Len(part) : IsDigit(part[k])
              THEN << 2, NumVal(part, 1, Len(part) + 1) >>
              ELSE << 1 >> \o [k \in 1..Len(part) |-> Ord(part[k])] \o << 0 >> )
            \o LocalKey(Tail(parts))

\* Version._key, flattened to one integer sequence compared lexicographically:
\* the epoch, the stripped release closed by -1 (a shorter release sorts
\* first), then pre, post and dev as pairs, with -Infinity and Infinity as the
\* ranks below and above every real value, then the local version (none
\* sorts below any).
CmpKey(v) ==
    << v.epoch >> \o StripTrailingZeros(v.release) \o << -1 >>
    \o ( IF v.pre = <<>> /\ v.post = <<>> /\ v.dev # <<>> THEN << 0, 0 >>
         ELSE IF v.pre = <<>> THEN << 4, 0 >>
         ELSE << PreRank(v.pre[1]), v.pre[2] >> )
    \o ( IF v.post = <<>> THEN << 0, 0 >> ELSE << 1, v.post[1] >> )
    \o ( IF v.dev = <<>> THEN << 1, 0 >> ELSE << 0, v.dev[1] >> )
    \o LocalKey(v.local)

\* Python's tuple comparison on integer sequences.
RECURSIVE LexLt(_, _)
LexLt(a, b) ==
    IF b = <<>> THEN FALSE
    ELSE IF a = <<>> THEN TRUE
    ELSE IF Head(a) # Head(b) THEN Head(a) < Head(b)
    ELSE LexLt(Tail(a), Tail(b))

---------------------------------------------------------------------------
(* Constants of readthedocs.builds.constants and the backend registry of   *)
(* readthedocs.vcs_support.backends, which version_handling.py imports.    *)

LATEST == << "l", "a", "t", "e", "s", "t" >>
LATEST_VERBOSE_NAME == << "l", "a", "t", "e", "s", "t" >>
STABLE == << "s", "t", "a", "b", "l", "e" >>
STABLE_VERBOSE_NAME == << "s", "t", "a", "b", "l", "e" >>
TAG == "tag"
BRANCH == "branch"

\* Python's None as a repo_type or a raw_pattern.
NONE == "None"

\* backend_cls: repository type -> backend class, each with its fallback_branch
\* ("" when the backend names none).
backend_cls ==
    [ git |-> [fallback_branch |-> << "m", "a", "s", "t", "e", "r" >>],
      bzr |-> [fallback_branch |-> <<>>] ]

\* The repository types a call may pass: none, a backend with a fallback
\* branch, a backend without one, and a type with no backend.
RepoTypes == { NONE, "git", "bzr", "unknown" }

---------------------------------------------------------------------------
(* parse_version_failsafe and comparable_version *)

\* The base of the numbers behind the synthetic names: str(999999 - position).
HighestVersionNumber == 999999

\* A parse_version_failsafe without its except InvalidVersion clause.
parse_version_failsafe_uncaught(s) == Version(AsciiIgnore(NFKD(s)))

\* A parse_version_failsafe without the special case of ".x".
parse_version_failsafe_no_wildcard(s) ==
    LET parsed == Version(AsciiIgnore(NFKD(s)))
    IN IF parsed.exc = "" THEN parsed ELSE [exc |-> "", val |-> <<>>]

RECURSIVE parse_version_failsafe(_)
parse_version_failsafe(s) ==
    LET final_form == AsciiIgnore(NFKD(s))
        parsed == Version(final_form)
    IN IF parsed.exc = "" THEN parsed
       ELSE IF final_form # <<>> /\ HasDotX(final_form)
            THEN parse_version_failsafe(ReplaceDotX(final_form))
       ELSE [exc |-> "", val |-> <<>>]

\* highest_versions: the fallback branch of repo_type's backend, when it has
\* one, then "latest" and "stable".
highest_versions(rt) ==
    ( IF rt # NONE /\ rt \in DOMAIN backend_cls /\ backend_cls[rt].fallback_branch # <<>>
      THEN << backend_cls[rt].fallback_branch >>
      ELSE <<>> )
    \o << LATEST_VERBOSE_NAME, STABLE_VERBOSE_NAME >>

\* list.index(x): 0-based position of the first occurrence.
IndexOf(list, x) == (CHOOSE i \in 1..Len(list) : list[i] = x /\ \A j \in 1..(i - 1) : list[j] # x) - 1

InList(list, x) == \E i \in 1..Len(list) : list[i] = x

\* A comparable_version that gives every synthetic name the same number.
comparable_version_no_position(s, rt) ==
    LET comparable == parse_version_failsafe(s)
    IN IF comparable.exc # "" \/ comparable.val # <<>> THEN comparable
       ELSE IF InList(highest_versions(rt), s)
            THEN Version(IntToStr(HighestVersionNumber))
            ELSE Version(<< "0", ".", "0", "1" >>)

\* A comparable_version that reads backend.fallback_branch without testing
\* that backend_cls.get(repo_type) found a backend.
comparable_version_no_backend_test(s, rt) ==
    IF rt # NONE /\ rt \notin DOMAIN backend_cls
    THEN [exc |-> "AttributeError", val |-> <<>>]
    ELSE LET comparable == parse_version_failsafe(s)
         IN IF comparable.exc # "" \/ comparable.val # <<>> THEN comparable
            ELSE IF InList(highest_versions(rt), s)
                 THEN Version(IntToStr(HighestVersionNumber - IndexOf(highest_versions(rt), s)))
                 ELSE Version(<< "0", ".", "0", "1" >>)

comparable_version(s, rt) ==
    LET comparable == parse_version_failsafe(s)
    IN IF comparable.exc # "" \/ comparable.val # <<>> THEN comparable
       ELSE IF InList(highest_versions(rt), s)
            THEN Version(IntToStr(HighestVersionNumber - IndexOf(highest_versions(rt), s)))
            ELSE Version(<< "0", ".", "0", "1" >>)

\* Comparison of two Version values, as the sorts use it.
VersionLt(a, b) == LexLt(CmpKey(a), CmpKey(b))

VersionEq(a, b) == CmpKey(a) = CmpKey(b)

---------------------------------------------------------------------------
(* The string-level calls: any string, parsed and keyed. *)

Alphabet == { "0", "1", ".", "x", "a", "-", "!", "U+FF11" }

GeneratedStrings == UNION { [1..n -> Alphabet] : n \in 0..MaxLen }

S_master == << "m", "a", "s", "t", "e", "r" >>
S_3_9_0 == << "3", ".", "9", ".", "0" >>
S_garbage_branch == << "g", "a", "r", "b", "a", "g", "e", "-", "b", "r", "a", "n", "c", "h" >>
S_1_x == << "1", ".", "x" >>
S_1_999999 == << "1", ".", "9", "9", "9", "9", "9", "9" >>
S_1000000 == << "1", "0", "0", "0", "0", "0", "0" >>
S_999999 == << "9", "9", "9", "9", "9", "9" >>
S_arrow == << "U+2192" >>
S_1_eacute == << "1", "U+00E9" >>
S_2_1_0_rc1 == << "2", ".", "1", ".", "0", "-", "r", "c", "1" >>
S_v1_0_post1 == << "v", "1", ".", "0", ".", "p", "o", "s", "t", "1" >>
S_1_0_dev1 == << "1", ".", "0", ".", "d", "e", "v", "1" >>
S_x_x == << "1", ".", "x", ".", "x", "y" >>
S_1_x_local == << "1", ".", "x", "+", "a", ".", "U+2192", "x" >>
S_1_0_local == << "1", ".", "0", "+", "a", ".", "x" >>

PoolStrings ==
    { S_master, LATEST_VERBOSE_NAME, STABLE_VERBOSE_NAME, S_3_9_0, S_garbage_branch,
      S_1_x, S_1_999999, S_1000000, S_999999, S_arrow, S_1_eacute, S_2_1_0_rc1,
      S_v1_0_post1, S_1_0_dev1, S_x_x, S_1_x_local, S_1_0_local }

Strings == GeneratedStrings \cup PoolStrings

NoReturn == [exc |-> "", val |-> <<>>]

Init ==
    /\ call = "none"
    /\ version_string \in Strings
    /\ repo_type = NONE
    /\ version_list = <<>>
    /\ latest_stable_at_beginning = FALSE
    /\ raw_pattern = NONE
    /\ ret = NoReturn

ParseVersionFailsafe ==
    /\ call' = "parse_version_failsafe"
    /\ repo_type' = NONE
    /\ ret' = parse_version_failsafe(version_string)
    /\ UNCHANGED << version_string, version_list,
                    latest_stable_at_beginning, raw_pattern >>

ComparableVersion ==
    \E rt \in RepoTypes :
        /\ call' = "comparable_version"
        /\ repo_type' = rt
        /\ ret' = comparable_version(version_string, rt)
        /\ UNCHANGED << version_string, version_list,
                        latest_stable_at_beginning, raw_pattern >>

Next == ParseVersionFailsafe \/ ComparableVersion

Spec == Init /\ [][Next]_vars

---------------------------------------------------------------------------
(* Sorting: list.sort and sorted are stable, also with reverse=True. *)

\* x put into an already sorted list of [item, key] records, after every
\* element that does not have to follow it.
RECURSIVE InsertStable(_, _, _)
InsertStable(sorted, x, reverse) ==
    IF sorted = <<>> THEN << x >>
    ELSE IF ( IF reverse THEN LexLt(Head(sorted).key, x.key)
              ELSE LexLt(x.key, Head(sorted).key) )
         THEN << x >> \o sorted
         ELSE << Head(sorted) >> \o InsertStable(Tail(sorted), x, reverse)

RECURSIVE SortKeyed(_, _)
SortKeyed(keyed, reverse) ==
    IF keyed = <<>> THEN <<>>
    ELSE InsertStable(SortKeyed(SubSeq(keyed, 1, Len(keyed) - 1), reverse),
                      keyed[Len(keyed)], reverse)

\* sorted(keyed, key=..., reverse=reverse): the items in key order.
\* The one element of a singleton set; { e : x \in { v } } is e with x bound to
\* the value v, as a local variable is bound once by its assignment.
TheOnly(S) == CHOOSE x \in S : TRUE

\* A sort whose reverse=True sorts ascending and then reverses the result.
StableSort_reversed_ascending(keyed, reverse) ==
    TheOnly({ [i \in 1..Len(s) |-> IF reverse THEN s[Len(s) + 1 - i].item ELSE s[i].item] :
              s \in { SortKeyed(k, FALSE) : k \in { keyed } } })

StableSort(keyed, reverse) ==
    TheOnly({ [i \in 1..Len(s) |-> s[i].item] :
              s \in { SortKeyed(k, reverse) : k \in { keyed } } })

\* A str as a sort key: its code points (str compares lexicographically by code point).
StrKey(s) == [i \in 1..Len(s) |-> Ord(s[i])]

SetMin(S) == CHOOSE m \in S : \A o \in S : m <= o

---------------------------------------------------------------------------
(* sort_versions and determine_stable_version *)

\* The pairs of the versions that parse, in list order, or the exception a parse raised.
ParsedPairs(vl) ==
    TheOnly({
        LET raised == { i \in 1..Len(vl) : parsed[i].exc # "" }
            kept == SelectSeq([i \in 1..Len(vl) |-> i], LAMBDA i : parsed[i].val # <<>>)
        IN [exc |-> IF raised # {} THEN parsed[SetMin(raised)].exc ELSE "",
            versions |-> IF raised # {} THEN <<>>
                         ELSE [k \in 1..Len(kept) |-> << vl[kept[k]], parsed[kept[k]].val[1] >>]]
        : parsed \in { [i \in 1..Len(vl) |-> parse_version_failsafe(vl[i].verbose_name)] } })

\* A sort_versions that sorts without reverse=True.
sort_versions_ascending(vl) ==
    TheOnly({
        IF p.exc # "" THEN [exc |-> p.exc, val |-> <<>>]
        ELSE [exc |-> "",
              val |-> StableSort([k \in 1..Len(p.versions) |->
                                     [item |-> p.versions[k], key |-> CmpKey(p.versions[k][2])]],
                                 FALSE)]
        : p \in { ParsedPairs(vl) } })

\* A sort_versions that sorts ascending and then reverses the list, which
\* also reverses the records of equal version.
sort_versions_reversed_ascending(vl) ==
    TheOnly({ [exc |-> asc.exc, val |-> [k \in 1..Len(asc.val) |-> asc.val[Len(asc.val) + 1 - k]]]
              : asc \in { sort_versions_ascending(vl) } })

sort_versions(vl) ==
    TheOnly({
        IF p.exc # "" THEN [exc |-> p.exc, val |-> <<>>]
        ELSE [exc |-> "",
              val |-> StableSort([k \in 1..Len(p.versions) |->
                                     [item |-> p.versions[k], key |-> CmpKey(p.versions[k][2])]],
                                 TRUE)]
        : p \in { ParsedPairs(vl) } })

\* A determine_stable_version without the preference for tags.
determine_stable_version_no_tag_preference(vl) ==
    TheOnly({
        IF sorted.exc # "" THEN sorted
        ELSE TheOnly({
            IF versions = <<>> THEN [exc |-> "", val |-> <<>>]
            ELSE [exc |-> "", val |-> << versions[1][1] >>]
            : versions \in { SelectSeq(sorted.val, LAMBDA p : ~ is_prerelease(p[2])) } })
        : sorted \in { sort_versions(vl) } })

\* A determine_stable_version without the filter on is_prerelease.
determine_stable_version_keeps_prereleases(vl) ==
    TheOnly({
        IF sorted.exc # "" THEN sorted
        ELSE LET versions == sorted.val
                 tags == { i \in 1..Len(versions) : versions[i][1].type = TAG }
             IN IF versions = <<>> THEN [exc |-> "", val |-> <<>>]
                ELSE IF tags # {} THEN [exc |-> "", val |-> << versions[SetMin(tags)][1] >>]
                ELSE [exc |-> "", val |-> << versions[1][1] >>]
        : sorted \in { sort_versions(vl) } })

\* A determine_stable_version that reads versions[0] without testing `if versions`.
determine_stable_version_no_empty_test(vl) ==
    TheOnly({
        IF sorted.exc # "" THEN sorted
        ELSE TheOnly({
            LET tags == { i \in 1..Len(versions) : versions[i][1].type = TAG }
            IN IF tags # {} THEN [exc |-> "", val |-> << versions[SetMin(tags)][1] >>]
               ELSE IF versions = <<>> THEN [exc |-> "IndexError", val |-> <<>>]
               ELSE [exc |-> "", val |-> << versions[1][1] >>]
            : versions \in { SelectSeq(sorted.val, LAMBDA p : ~ is_prerelease(p[2])) } })
        : sorted \in { sort_versions(vl) } })

determine_stable_version(vl) ==
    TheOnly({
        IF sorted.exc # "" THEN sorted
        ELSE TheOnly({
            LET tags == { i \in 1..Len(versions) : versions[i][1].type = TAG }
            IN IF versions = <<>> THEN [exc |-> "", val |-> <<>>]
               ELSE IF tags # {} THEN [exc |-> "", val |-> << versions[SetMin(tags)][1] >>]
               ELSE [exc |-> "", val |-> << versions[1][1] >>]
            : versions \in { SelectSeq(sorted.val, LAMBDA p : ~ is_prerelease(p[2])) } })
        : sorted \in { sort_versions(vl) } })

---------------------------------------------------------------------------
(* bumpver.v2version.parse_version_info for the two patterns of the model: *)
(* the pattern's regular expression must match the whole slug              *)
(* (PatternError otherwise); a year, month and day are then made into a    *)
(* datetime.date, which raises ValueError for a day the month lacks.       *)

CALVER_PATTERN == "YYYY.0M.0D"
SEMVER_PATTERN == "MAJOR.MINOR.PATCH"

IsLeap(y) == (y % 4 = 0 /\ y % 100 # 0) \/ y % 400 = 0

DaysInMonth(y, m) ==
    IF m = 2 THEN (IF IsLeap(y) THEN 29 ELSE 28)
    ELSE IF m \in { 4, 6, 9, 11 } THEN 30 ELSE 31

\* YYYY.0M.0D: [1-9][0-9]{3}\.(1[0-2]|0[1-9])\.(3[0-1]|[1-2][0-9]|0[1-9])
MatchesCalver(s) ==
    /\ Len(s) = 10
    /\ \A i \in { 1, 2, 3, 4, 6, 7, 9, 10 } : IsDigit(s[i])
    /\ s[1] # "0" /\ s[5] = "." /\ s[8] = "."
    /\ NumVal(s, 6, 8) \in 1..12
    /\ NumVal(s, 9, 11) \in 1..31

\* MAJOR.MINOR.PATCH: [0-9]+\.[0-9]+\.[0-9]+
MatchesSemver(s) ==
    LET a == DigitsEnd(s, 1)
        b == DigitsEnd(s, a + 1)
        c == DigitsEnd(s, b + 1)
    IN /\ a > 1 /\ a <= Len(s) /\ s[a] = "."
       /\ b > a + 1 /\ b <= Len(s) /\ s[b] = "."
       /\ c > b + 1 /\ c = Len(s) + 1

\* The fields of V2VersionInfo that differ between versions of one pattern,
\* in the order the named tuple compares them.
V2VersionInfo(y, m, d, major, minor, patch) ==
    [cls |-> "V2VersionInfo", year_y |-> y, month |-> m, dom |-> d,
     major |-> major, minor |-> minor, patch |-> patch]

parse_version_info(s, pattern) ==
    IF pattern = CALVER_PATTERN
    THEN IF ~ MatchesCalver(s) THEN [exc |-> "PatternError", val |-> <<>>]
         ELSE LET y == NumVal(s, 1, 5)
                  m == NumVal(s, 6, 8)
                  d == NumVal(s, 9, 11)
              IN IF d > DaysInMonth(y, m) THEN [exc |-> "ValueError", val |-> <<>>]
                 ELSE [exc |-> "", val |-> << V2VersionInfo(y, m, d, 0, 0, 0) >>]
    ELSE IF ~ MatchesSemver(s) THEN [exc |-> "PatternError", val |-> <<>>]
         ELSE LET a == DigitsEnd(s, 1)
                  b == DigitsEnd(s, a + 1)
                  c == DigitsEnd(s, b + 1)
              IN [exc |-> "",
                  val |-> << V2VersionInfo(0, 0, 0, NumVal(s, 1, a), NumVal(s, a + 1, b),
                                           NumVal(s, b + 1, c)) >>]

\* The order of the parsed values of either parser, as an integer sequence.
SortKey(o) ==
    IF o.cls = "Version" THEN CmpKey(o)
    ELSE << o.year_y, o.month, o.dom, o.major, o.minor, o.patch >>

---------------------------------------------------------------------------
(* sort_versions_generic and its adapters *)

\* parse_version(slug=slug, raw_pattern=raw_pattern), for the two functions the
\* adapters pass as parse_version: the one of sort_versions_python_packaging
\* ignores raw_pattern and returns Version(slug), the one of
\* sort_versions_custom_pattern returns parse_version_info(slug, raw_pattern).
CallParseVersion(parse_version, slug, pattern) ==
    IF parse_version = "Version" THEN Version(slug) ELSE parse_version_info(slug, pattern)

\* The loop of a sort_versions_generic that does not sort by slug first.
GenericGroups_no_first_sort(vl, exception, parse_version, flag, pattern) ==
    TheOnly({ TheOnly({ TheOnly({
        LET escaped == { i \in 1..Len(parsed_list) : parsed[i].exc \notin { "", exception } }
            valid == SelectSeq([i \in 1..Len(parsed_list) |-> i],
                               LAMBDA i : parsed[i].exc = "")
            invalid == SelectSeq([i \in 1..Len(parsed_list) |-> i],
                                 LAMBDA i : parsed[i].exc = exception)
        IN [exc |-> IF escaped # {} THEN parsed[SetMin(escaped)].exc ELSE "",
            initial |-> StableSort([i \in 1..Len(initial_versions) |->
                                       [item |-> initial_versions[i],
                                        key |-> StrKey(initial_versions[i].slug)]], FALSE),
            valid |-> IF escaped # {} THEN <<>>
                      ELSE StableSort([k \in 1..Len(valid) |->
                                          [item |-> parsed_list[valid[k]],
                                           key |-> SortKey(parsed[valid[k]].val[1])]], TRUE),
            invalid |-> [k \in 1..Len(invalid) |-> parsed_list[invalid[k]]]]
        : parsed \in { [i \in 1..Len(parsed_list) |->
                          CallParseVersion(parse_version, parsed_list[i].slug, pattern)] } })
        : initial_versions \in
              { SelectSeq(alphabetically_sorted_version_list,
                          LAMBDA v : flag /\ v.slug \in { STABLE, LATEST }) },
          parsed_list \in
              { SelectSeq(alphabetically_sorted_version_list,
                          LAMBDA v : ~ (flag /\ v.slug \in { STABLE, LATEST })) } })
        : alphabetically_sorted_version_list \in { vl } })

\* The loop of sort_versions_generic over the list sorted by slug, descending:
\* the three groups, already in their final order, or the exception of the
\* first parse that raised something other than `exception`.
GenericGroups(vl, exception, parse_version, flag, pattern) ==
    TheOnly({ TheOnly({ TheOnly({
        LET escaped == { i \in 1..Len(parsed_list) : parsed[i].exc \notin { "", exception } }
            valid == SelectSeq([i \in 1..Len(parsed_list) |-> i],
                               LAMBDA i : parsed[i].exc = "")
            invalid == SelectSeq([i \in 1..Len(parsed_list) |-> i],
                                 LAMBDA i : parsed[i].exc = exception)
        IN [exc |-> IF escaped # {} THEN parsed[SetMin(escaped)].exc ELSE "",
            initial |-> StableSort([i \in 1..Len(initial_versions) |->
                                       [item |-> initial_versions[i],
                                        key |-> StrKey(initial_versions[i].slug)]], FALSE),
            valid |-> IF escaped # {} THEN <<>>
                      ELSE StableSort([k \in 1..Len(valid) |->
                                          [item |-> parsed_list[valid[k]],
                                           key |-> SortKey(parsed[valid[k]].val[1])]], TRUE),
            invalid |-> [k \in 1..Len(invalid) |-> parsed_list[invalid[k]]]]
        : parsed \in { [i \in 1..Len(parsed_list) |->
                          CallParseVersion(parse_version, parsed_list[i].slug, pattern)] } })
        : initial_versions \in
              { SelectSeq(alphabetically_sorted_version_list,
                          LAMBDA v : flag /\ v.slug \in { STABLE, LATEST }) },
          parsed_list \in
              { SelectSeq(alphabetically_sorted_version_list,
                          LAMBDA v : ~ (flag /\ v.slug \in { STABLE, LATEST })) } })
        : alphabetically_sorted_version_list \in
              { StableSort([i \in 1..Len(vl) |-> [item |-> vl[i], key |-> StrKey(vl[i].slug)]],
                           TRUE) } })

\* A sort_versions_generic that leaves the invalid versions out of all_versions.
sort_versions_generic_drops_invalid(vl, exception, parse_version, flag, pattern) ==
    TheOnly({ IF g.exc # "" THEN [exc |-> g.exc, val |-> <<>>]
              ELSE [exc |-> "", val |-> g.initial \o g.valid]
              : g \in { GenericGroups(vl, exception, parse_version, flag, pattern) } })

\* A sort_versions_generic that puts initial_versions behind valid_versions.
sort_versions_generic_pinned_behind_valid(vl, exception, parse_version, flag, pattern) ==
    TheOnly({ IF g.exc # "" THEN [exc |-> g.exc, val |-> <<>>]
              ELSE [exc |-> "", val |-> g.valid \o g.initial \o g.invalid]
              : g \in { GenericGroups(vl, exception, parse_version, flag, pattern) } })

\* A sort_versions_generic that sorts invalid_versions by slug ascending.
sort_versions_generic_invalid_ascending(vl, exception, parse_version, flag, pattern) ==
    TheOnly({ IF g.exc # "" THEN [exc |-> g.exc, val |-> <<>>]
              ELSE [exc |-> "",
                    val |-> g.initial \o g.valid
                            \o [k \in 1..Len(g.invalid) |-> g.invalid[Len(g.invalid) + 1 - k]]]
              : g \in { GenericGroups(vl, exception, parse_version, flag, pattern) } })

\* all_versions, without its parsed values (no version of a list is None).
sort_versions_generic(vl, exception, parse_version, flag, pattern) ==
    TheOnly({ IF g.exc # "" THEN [exc |-> g.exc, val |-> <<>>]
              ELSE [exc |-> "", val |-> g.initial \o g.valid \o g.invalid]
              : g \in { GenericGroups(vl, exception, parse_version, flag, pattern) } })

sort_versions_python_packaging(vl, flag) ==
    sort_versions_generic(vl, "InvalidVersion", "Version", flag, NONE)

sort_versions_custom_pattern(vl, pattern, flag) ==
    sort_versions_generic(vl, "PatternError", "parse_version_info", flag, pattern)

sort_versions_calver(vl, flag) ==
    sort_versions_custom_pattern(vl, CALVER_PATTERN, flag)

---------------------------------------------------------------------------
(* The list-level calls: one call on a version list drawn from one of      *)
(* three projects.                                                         *)

Rec(name, type) == [slug |-> name, verbose_name |-> name, type |-> type]

S_2_0_0 == << "2", ".", "0", ".", "0" >>
S_2_0 == << "2", ".", "0" >>
S_2_1_0 == << "2", ".", "1", ".", "0" >>
S_1_9_0 == << "1", ".", "9", ".", "0" >>
S_2_2_0b1 == << "2", ".", "2", ".", "0", "b", "1" >>
S_1_5_0 == << "1", ".", "5", ".", "0" >>
S_not_a_version == << "n", "o", "t", "-", "a", "-", "v", "e", "r", "s", "i", "o", "n" >>
S_2024_01_15 == << "2", "0", "2", "4", ".", "0", "1", ".", "1", "5" >>
S_2023_12_31 == << "2", "0", "2", "3", ".", "1", "2", ".", "3", "1" >>
S_2023_02_30 == << "2", "0", "2", "3", ".", "0", "2", ".", "3", "0" >>
S_2023_1_5 == << "2", "0", "2", "3", ".", "1", ".", "5" >>

\* A project with semantic versions as tags and branches.
ProjectSemver ==
    { Rec(S_2_0_0, TAG), Rec(S_2_1_0_rc1, BRANCH), Rec(S_2_1_0, BRANCH),
      Rec(S_1_9_0, TAG), Rec(S_2_2_0b1, TAG), Rec(S_2_0, BRANCH) }

\* A project with the synthetic names and names that are no version.
ProjectMixed ==
    { Rec(S_2_0_0, TAG), Rec(S_1_5_0, TAG), Rec(LATEST, BRANCH),
      Rec(S_not_a_version, BRANCH), Rec(STABLE, BRANCH), Rec(S_1_x, BRANCH) }

\* A project with calendar versions.
ProjectCalver ==
    { Rec(S_2024_01_15, TAG), Rec(S_2023_12_31, TAG), Rec(S_2023_02_30, TAG),
      Rec(S_2023_1_5, TAG), Rec(LATEST, BRANCH), Rec(S_garbage_branch, BRANCH) }

Projects == { ProjectSemver, ProjectMixed, ProjectCalver }

\* The lists of at most n distinct records of a project.
DistinctLists(P, n) ==
    { l \in UNION { [1..k -> P] : k \in 0..n } :
        \A i, j \in 1..Len(l) : i # j => l[i] # l[j] }

\* The version lists a call may be given.
VersionLists == UNION { DistinctLists(P, MaxListLen) : P \in Projects }

Patterns == { CALVER_PATTERN, SEMVER_PATTERN }

SortInit ==
    /\ call = "none"
    /\ version_string = <<>>
    /\ repo_type = NONE
    /\ version_list \in VersionLists
    /\ latest_stable_at_beginning = FALSE
    /\ raw_pattern = NONE
    /\ ret = NoReturn

SortVersions ==
    /\ call = "none"
    /\ call' = "sort_versions"
    /\ ret' = sort_versions(version_list)
    /\ UNCHANGED << version_string, repo_type, version_list,
                    latest_stable_at_beginning, raw_pattern >>

DetermineStableVersion ==
    /\ call = "none"
    /\ call' = "determine_stable_version"
    /\ ret' = determine_stable_version(version_list)
    /\ UNCHANGED << version_string, repo_type, version_list,
                    latest_stable_at_beginning, raw_pattern >>

SortVersionsPythonPackaging ==
    \E flag \in BOOLEAN :
        /\ call = "none"
        /\ call' = "sort_versions_python_packaging"
        /\ latest_stable_at_beginning' = flag
        /\ ret' = sort_versions_python_packaging(version_list, flag)
        /\ UNCHANGED << version_string, repo_type, version_list, raw_pattern >>

SortVersionsCustomPattern ==
    \E flag \in BOOLEAN, pattern \in Patterns :
        /\ call = "none"
        /\ call' = "sort_versions_custom_pattern"
        /\ latest_stable_at_beginning' = flag
        /\ raw_pattern' = pattern
        /\ ret' = sort_versions_custom_pattern(version_list, pattern, flag)
        /\ UNCHANGED << version_string, repo_type, version_list >>

SortVersionsCalver ==
    \E flag \in BOOLEAN :
        /\ call = "none"
        /\ call' = "sort_versions_calver"
        /\ latest_stable_at_beginning' = flag
        /\ raw_pattern' = CALVER_PATTERN
        /\ ret' = sort_versions_calver(version_list, flag)
        /\ UNCHANGED << version_string, repo_type, version_list >>

\* The sort entry points built on sort_versions_generic, and all of them.
GenericSorts ==
    { "sort_versions_python_packaging", "sort_versions_custom_pattern", "sort_versions_calver" }

Sorts == GenericSorts \cup { "sort_versions" }

\* The call `name` made on vl with the flag and the pattern of the earlier call.
SortBy(name, vl, flag, pattern) ==
    CASE name = "sort_versions" -> sort_versions(vl)
      [] name = "sort_versions_python_packaging" -> sort_versions_python_packaging(vl, flag)
      [] name = "sort_versions_custom_pattern" -> sort_versions_custom_pattern(vl, pattern, flag)
      [] name = "sort_versions_calver" -> sort_versions_calver(vl, flag)

\* The records of what a sort returned: sort_versions returns
\* (record, version) pairs, the others return the records.
RecordsOf(name, r) ==
    IF name = "sort_versions" THEN [i \in 1..Len(r.val) |-> r.val[i][1]] ELSE r.val

\* The records a sort returned are given to the same sort again, with the same
\* flag and pattern.
SortAgain ==
    /\ call \in Sorts
    /\ ret.exc = ""
    /\ version_list' = RecordsOf(call, ret)
    /\ ret' = SortBy(call, version_list', latest_stable_at_beginning, raw_pattern)
    /\ UNCHANGED << call, version_string, repo_type, latest_stable_at_beginning, raw_pattern >>

\* l with the records at positions i and i + 1 exchanged.
Swap(l, i) ==
    [k \in 1..Len(l) |-> IF k = i THEN l[i + 1] ELSE IF k = i + 1 THEN l[i] ELSE l[k]]

\* The same sort is called on the same records in another order (two
\* neighbours exchanged; every order is reached by such exchanges).
SortReordered ==
    \E i \in 1..(Len(version_list) - 1) :
        /\ call \in GenericSorts
        /\ version_list' = Swap(version_list, i)
        /\ ret' = SortBy(call, version_list', latest_stable_at_beginning, raw_pattern)
        /\ UNCHANGED << call, version_string, repo_type, latest_stable_at_beginning,
                        raw_pattern >>

SortNext ==
    \/ SortVersions
    \/ DetermineStableVersion
    \/ SortVersionsPythonPackaging
    \/ SortVersionsCustomPattern
    \/ SortVersionsCalver
    \/ SortAgain
    \/ SortReordered

SortSpec == SortInit /\ [][SortNext]_vars

---------------------------------------------------------------------------
(* Properties *)

\* The parsed version of a record's verbose_name (<<>> when it does not parse).
ParsedOf(v) == parse_version_failsafe(v.verbose_name).val

\* The record parses and is no pre-release: it survives sort_versions and the filter.
Survives(v) == ParsedOf(v) # <<>> /\ ~ is_prerelease(ParsedOf(v)[1])

\* The slugs of a list of records.
Slugs(l) == [i \in 1..Len(l) |-> l[i].slug]

\* out holds every element of in exactly once.
IsPermutation(out, in) ==
    /\ Len(out) = Len(in)
    /\ \A x \in { in[i] : i \in 1..Len(in) } :
          Cardinality({ i \in 1..Len(out) : out[i] = x })
              = Cardinality({ i \in 1..Len(in) : in[i] = x })

ExampleStable ==
    << Rec(S_2_0_0, TAG), Rec(S_2_1_0_rc1, BRANCH), Rec(S_2_1_0, BRANCH), Rec(S_1_9_0, TAG) >>

ExampleMixed ==
    << Rec(S_2_0_0, TAG), Rec(S_1_5_0, TAG), Rec(LATEST, BRANCH), Rec(S_not_a_version, BRANCH) >>

\* C1: determine_stable_version returns, of the records that parse and are no
\* pre-release, the tag with the highest version (the earliest in the list
\* among equal ones) even when a branch is higher, and the highest record when
\* none is a tag; on [tag 2.0.0, branch 2.1.0-rc1, branch 2.1.0, tag 1.9.0] it
\* returns tag 2.0.0.
C1_TagPreferredThenHighest ==
    call = "determine_stable_version" =>
        LET surv == { i \in 1..Len(version_list) : Survives(version_list[i]) }
            tags == { i \in surv : version_list[i].type = TAG }
            Ver(i) == ParsedOf(version_list[i])[1]
            BestOf(S, i) ==
                /\ i \in S
                /\ \A j \in S : ~ VersionLt(Ver(i), Ver(j))
                /\ \A j \in S : VersionEq(Ver(i), Ver(j)) => i <= j
        IN /\ ret.exc = ""
           /\ tags # {} => \E i \in tags : BestOf(tags, i) /\ ret.val = << version_list[i] >>
           /\ (tags = {} /\ surv # {}) =>
                 \E i \in surv : BestOf(surv, i) /\ ret.val = << version_list[i] >>
           /\ version_list = ExampleStable => ret.val = << Rec(S_2_0_0, TAG) >>

\* A tag is returned although a surviving branch has a strictly higher version.
C1_Witness ==
    /\ call = "determine_stable_version"
    /\ version_list = ExampleStable
    /\ ret.val = << Rec(S_2_0_0, TAG) >>
    /\ \E i \in 1..Len(version_list) :
          /\ Survives(version_list[i])
          /\ version_list[i].type = BRANCH
          /\ VersionLt(ParsedOf(ret.val[1])[1], ParsedOf(version_list[i])[1])

C2_Chain == << S_master, LATEST_VERBOSE_NAME, STABLE_VERBOSE_NAME, S_3_9_0, S_garbage_branch >>

\* C2: with repo_type "git", whose fallback branch is "master", the comparable
\* versions of "master", "latest", "stable", "3.9.0" and "garbage-branch" form a
\* strictly descending chain.
C2_StrictChain ==
    (call = "comparable_version" /\ repo_type = "git") =>
        \A i \in 1..4 :
            version_string = C2_Chain[i] =>
                LET next == comparable_version(C2_Chain[i + 1], "git")
                IN /\ ret.exc = "" /\ Len(ret.val) = 1
                   /\ next.exc = "" /\ Len(next.val) = 1
                   /\ VersionLt(next.val[1], ret.val[1])

C2_Witness ==
    /\ call = "comparable_version"
    /\ repo_type = "git"
    /\ version_string = STABLE_VERBOSE_NAME
    /\ ret.val[1].release = << 999997 >>

\* C3: the comparable version of every string that parses is strictly below
\* the comparable version of every synthetic name (the fallback branch,
\* "latest", "stable").
C3_ParsedBelowSynthetic ==
    (call = "comparable_version" /\ parse_version_failsafe(version_string).val # <<>>) =>
        \A k \in 1..Len(highest_versions(repo_type)) :
            VersionLt(ret.val[1],
                      comparable_version(highest_versions(repo_type)[k], repo_type).val[1])

\* C4: the comparable version of a string that neither parses nor is a
\* synthetic name (the sentinel of "0.01") is strictly below the comparable
\* version of every string that parses.
C4_SentinelBelowParsed ==
    (call = "comparable_version" /\ parse_version_failsafe(version_string).val # <<>>) =>
        \A u \in { S_garbage_branch, S_arrow } :
            VersionLt(comparable_version(u, repo_type).val[1], ret.val[1])

\* C5: sort_versions returns exactly the records whose verbose_name parses,
\* each once and paired with its parsed version, by that version descending;
\* ["2.0.0", "1.5.0", "latest", "not-a-version"] gives [2.0.0, 1.5.0].
C5_SortVersionsDropsUnparsed ==
    call = "sort_versions" =>
        LET out == [i \in 1..Len(ret.val) |-> ret.val[i][1]]
            parsable == SelectSeq(version_list, LAMBDA v : ParsedOf(v) # <<>>)
        IN /\ ret.exc = ""
           /\ IsPermutation(out, parsable)
           /\ \A i \in 1..Len(ret.val) : << ret.val[i][2] >> = ParsedOf(ret.val[i][1])
           /\ \A i, j \in 1..Len(ret.val) :
                 i < j => ~ VersionLt(ret.val[i][2], ret.val[j][2])
           /\ version_list = ExampleMixed =>
                 out = << Rec(S_2_0_0, TAG), Rec(S_1_5_0, TAG) >>

C5_Witness ==
    /\ call = "sort_versions"
    /\ version_list = ExampleMixed
    /\ Len(ret.val) = 2
    /\ ret.val[1][1].slug = S_2_0_0

GenericCalls ==
    { "sort_versions_python_packaging", "sort_versions_custom_pattern", "sort_versions_calver" }

\* C6 as stated: on ["2.0.0", "1.5.0", "latest", "not-a-version"] with
\* latest_stable_at_beginning=True, sort_versions_python_packaging,
\* sort_versions_calver and sort_versions_custom_pattern all return
\* [latest, 2.0.0, 1.5.0, not-a-version].
C6_AllAdaptersAgree ==
    (call \in GenericCalls /\ latest_stable_at_beginning /\ version_list = ExampleMixed) =>
        /\ ret.exc = ""
        /\ Slugs(ret.val) = << LATEST, S_2_0_0, S_1_5_0, S_not_a_version >>

\* C6, amended: on that input sort_versions_python_packaging, and
\* sort_versions_custom_pattern with the pattern MAJOR.MINOR.PATCH, return
\* [latest, 2.0.0, 1.5.0, not-a-version]; sort_versions_calver, and
\* sort_versions_custom_pattern with YYYY.0M.0D, return
\* [latest, not-a-version, 2.0.0, 1.5.0]: no identifier is a calendar version,
\* so all three are invalid and stay in descending slug order.
C6_AdaptersOnExample ==
    (call \in GenericCalls /\ latest_stable_at_beginning /\ version_list = ExampleMixed) =>
        /\ ret.exc = ""
        /\ IF call = "sort_versions_python_packaging" \/ raw_pattern = SEMVER_PATTERN
           THEN Slugs(ret.val) = << LATEST, S_2_0_0, S_1_5_0, S_not_a_version >>
           ELSE Slugs(ret.val) = << LATEST, S_not_a_version, S_2_0_0, S_1_5_0 >>

C6_Witness ==
    /\ call = "sort_versions_calver"
    /\ latest_stable_at_beginning
    /\ version_list = ExampleMixed
    /\ Len(ret.val) = 4
    /\ ret.val[4].slug = S_1_5_0

\* C7: the output of sort_versions_generic is, for every list, flag and
\* parser, a permutation of its input.
C7_OutputIsPermutation ==
    call \in GenericCalls => (ret.exc = "" /\ IsPermutation(ret.val, version_list))

\* C8: no public sort entry point, nor determine_stable_version, raises: each
\* returns a result for every list of records.
C8_NoFailureReachesCaller ==
    call \in GenericCalls \cup { "sort_versions", "determine_stable_version" } => ret.exc = ""

\* C9: parse_version_failsafe never raises and returns a parsed version or
\* None; a string that is empty once its non-ASCII characters are dropped, and
\* one that fails to parse also with ".x" replaced, give None.
C9_ParseNeverRaises ==
    call = "parse_version_failsafe" =>
        LET final_form == AsciiIgnore(NFKD(version_string))
        IN /\ ret.exc = ""
           /\ ret.val = <<>> \/ (Len(ret.val) = 1 /\ ret.val[1].cls = "Version")
           /\ final_form = <<>> => ret.val = <<>>
           /\ (Version(final_form).exc # "" /\ Version(ReplaceDotX(final_form)).exc # "")
                 => ret.val = <<>>

\* A string with ".x" that still fails after the substitution gave None.
C9_Witness ==
    /\ call = "parse_version_failsafe"
    /\ version_string = S_x_x
    /\ ret = [exc |-> "", val |-> <<>>]

\* C10: comparable_version returns a version, without raising, for every
\* string and every repo_type (None, one without a backend, one whose backend
\* has no fallback branch), and a second call with the same arguments returns
\* the same value.
C10_TotalAndDeterministic ==
    /\ [](call = "comparable_version" =>
             (ret.exc = "" /\ Len(ret.val) = 1 /\ ret.val[1].cls = "Version"))
    /\ [][(call = "comparable_version" /\ call' = "comparable_version"
             /\ repo_type' = repo_type /\ version_string' = version_string)
          => ret' = ret]_vars

\* A string that does not parse, keyed for a repo_type that has no backend.
C10_Witness ==
    /\ call = "comparable_version"
    /\ repo_type = "unknown"
    /\ version_string = S_garbage_branch
    /\ ret.exc = ""
    /\ ret.val[1].release = << 0, 1 >>

\* C11: determine_stable_version returns None, and raises nothing, whenever no
\* record of the list both parses and is no pre-release: for the empty list,
\* a list of pre-releases only, a list of unparseable names only.
C11_NoneWithoutStable ==
    (call = "determine_stable_version"
        /\ \A i \in 1..Len(version_list) : ~ Survives(version_list[i]))
    => ret = [exc |-> "", val |-> <<>>]

\* A list of two pre-releases, one of them a tag, gave None.
C11_Witness ==
    /\ call = "determine_stable_version"
    /\ version_list = << Rec(S_2_2_0b1, TAG), Rec(S_2_1_0_rc1, BRANCH) >>
    /\ ret = [exc |-> "", val |-> <<>>]

\* C12: sorting is idempotent for every strategy: the records of a returned
\* order, given to the same sort with the same flag and pattern, come back in
\* the identical order.
C12_SortingIsIdempotent ==
    [][(call \in Sorts /\ call' = call /\ ret.exc = ""
           /\ version_list' = RecordsOf(call, ret)
           /\ latest_stable_at_beginning' = latest_stable_at_beginning
           /\ raw_pattern' = raw_pattern)
       => (ret'.exc = "" /\ RecordsOf(call, ret') = RecordsOf(call, ret))]_vars

\* sort_versions was given an order it had returned, in which two records of
\* equal version (2.0.0 and 2.0) are neighbours, and returned it unchanged.
C12_Witness ==
    /\ call = "sort_versions"
    /\ version_list = << Rec(S_2_1_0, BRANCH), Rec(S_2_0, BRANCH), Rec(S_2_0_0, TAG) >>
    /\ ret.exc = ""
    /\ RecordsOf(call, ret) = version_list

\* C13 as stated: for every string s that fails strict parsing and contains
\* ".x", parse_version_failsafe(s) equals parse_version_failsafe of s with
\* ".x" replaced by ".999999"; so comparable_version("1.x", None) equals
\* comparable_version("1.999999", None).
C13_WildcardOnRawString ==
    /\ (call = "parse_version_failsafe" /\ Version(version_string).exc # ""
           /\ HasDotX(version_string))
       => ret = parse_version_failsafe(ReplaceDotX(version_string))
    /\ (call = "comparable_version" /\ repo_type = NONE /\ version_string = S_1_x)
       => ret = comparable_version(S_1_999999, NONE)

\* C13, amended: the replacement is made in the NFKD-normalised, ASCII-only
\* form f of s, not in s. When f fails strict parsing and contains ".x",
\* parse_version_failsafe(s) is the strict parse of f with every ".x" replaced
\* by ".999999", or None when that does not parse either; for a string that
\* normalisation leaves unchanged this is the replacement in s itself, so
\* comparable_version("1.x", None) equals comparable_version("1.999999", None).
C13_WildcardOnNormalisedForm ==
    /\ call = "parse_version_failsafe" =>
          LET f == AsciiIgnore(NFKD(version_string))
              replaced == Version(ReplaceDotX(f))
          IN (Version(f).exc # "" /\ HasDotX(f)) =>
                /\ ret = IF replaced.exc = "" THEN replaced ELSE [exc |-> "", val |-> <<>>]
                /\ f = version_string => ret = parse_version_failsafe(ReplaceDotX(version_string))
    /\ (call = "comparable_version" /\ repo_type = NONE /\ version_string = S_1_x)
       => ret = comparable_version(S_1_999999, NONE)

\* "1.x+a.->x" (with the arrow U+2192, which normalisation drops) was parsed:
\* both wildcards of its normalised form "1.x+a.x" were replaced, while the
\* replacement in the string itself leaves the local version "a.x".
C13_Witness ==
    /\ call = "parse_version_failsafe"
    /\ version_string = S_1_x_local
    /\ ret.exc = "" /\ Len(ret.val) = 1
    /\ ret.val[1].local = << << "a" >>, << "9", "9", "9", "9", "9", "9" >> >>
    /\ Version(AsciiIgnore(NFKD(ReplaceDotX(version_string)))).val[1].local
          = << << "a" >>, << "x" >> >>

\* The position of record v in the list l of distinct records.
PositionIn(l, v) == CHOOSE k \in 1..Len(l) : l[k] = v

\* C14: sort_versions is stable: two retained records whose parsed versions
\* compare equal ("2.0" and "2.0.0") are returned in the relative order they
\* had in the input, although the sort is descending.
C14_SortVersionsIsStable ==
    call = "sort_versions" =>
        /\ ret.exc = ""
        /\ \A i, j \in 1..Len(version_list) :
              ( /\ i < j
                /\ ParsedOf(version_list[i]) # <<>> /\ ParsedOf(version_list[j]) # <<>>
                /\ VersionEq(ParsedOf(version_list[i])[1], ParsedOf(version_list[j])[1]) )
              => /\ \E k \in 1..Len(ret.val) : ret.val[k][1] = version_list[i]
                 /\ \E k \in 1..Len(ret.val) : ret.val[k][1] = version_list[j]
                 /\ PositionIn(RecordsOf(call, ret), version_list[i])
                       < PositionIn(RecordsOf(call, ret), version_list[j])

\* "2.0" was given before "2.0.0", with a lower and a higher version between
\* and after them, and is returned before it.
C14_Witness ==
    /\ call = "sort_versions"
    /\ version_list = << Rec(S_2_0, BRANCH), Rec(S_1_9_0, TAG), Rec(S_2_0_0, TAG),
                         Rec(S_2_1_0, BRANCH) >>
    /\ RecordsOf(call, ret) = << Rec(S_2_1_0, BRANCH), Rec(S_2_0, BRANCH), Rec(S_2_0_0, TAG),
                                 Rec(S_1_9_0, TAG) >>

\* What parsing the slug of v raises under the strategy of the call made
\* ("" when it parses).
ParseRaises(v) ==
    CallParseVersion(IF call = "sort_versions_python_packaging" THEN "Version"
                     ELSE "parse_version_info", v.slug, raw_pattern).exc

\* The exception the strategy of the call made demotes.
StrategyException ==
    IF call = "sort_versions_python_packaging" THEN "InvalidVersion" ELSE "PatternError"

\* v carries one of the two synthetic slugs.
HasPinnedSlug(v) == v.slug \in { LATEST, STABLE }

\* C15: in what sort_versions_generic returns, the records with slug "latest"
\* or "stable" form a group of their own only when latest_stable_at_beginning
\* is true: they then stand before every other record, latest before stable,
\* whatever the parser would make of their slugs; when the flag is false they
\* are parsed like the others and stand in the valid or the invalid group
\* (here the invalid one, behind every record that parses: no strategy parses
\* "latest" or "stable").
C15_PinnedGroupOnlyWithFlag ==
    call \in GenericSorts =>
        \A i, j \in 1..Len(ret.val) :
            /\ (latest_stable_at_beginning /\ i < j) =>
                  /\ HasPinnedSlug(ret.val[j]) => HasPinnedSlug(ret.val[i])
                  /\ ret.val[i].slug = STABLE => ret.val[j].slug # LATEST
            /\ (~ latest_stable_at_beginning /\ HasPinnedSlug(ret.val[i])) =>
                  /\ ParseRaises(ret.val[i]) = StrategyException
                  /\ ParseRaises(ret.val[j]) = "" => j < i

\* With the flag, stable and latest were given around a valid and an invalid
\* record and are returned first, latest before stable.
C15_Witness ==
    /\ call = "sort_versions_python_packaging"
    /\ latest_stable_at_beginning
    /\ version_list = << Rec(STABLE, BRANCH), Rec(S_2_0_0, TAG), Rec(LATEST, BRANCH),
                         Rec(S_not_a_version, BRANCH) >>
    /\ Slugs(ret.val) = << LATEST, STABLE, S_2_0_0, S_not_a_version >>

\* v was handed to the parser of the call made and raised its exception.
IsInvalidRecord(v) ==
    /\ ~ (latest_stable_at_beginning /\ HasPinnedSlug(v))
    /\ ParseRaises(v) = StrategyException

\* v was handed to the parser of the call made and parsed.
IsValidRecord(v) ==
    /\ ~ (latest_stable_at_beginning /\ HasPinnedSlug(v))
    /\ ParseRaises(v) = ""

\* C16: in what sort_versions_generic returns, every record whose parse raised
\* the strategy's exception stands behind every record that parsed, and the
\* invalid records stand among themselves by slug, descending (the order of
\* the first sort), whatever the valid records' order by parsed value is.
C16_InvalidLastBySlugDescending ==
    call \in GenericSorts =>
        \A i, j \in 1..Len(ret.val) :
            /\ (IsInvalidRecord(ret.val[i]) /\ IsValidRecord(ret.val[j])) => j < i
            /\ (i < j /\ IsInvalidRecord(ret.val[i]) /\ IsInvalidRecord(ret.val[j])) =>
                  ~ LexLt(StrKey(ret.val[i].slug), StrKey(ret.val[j].slug))

\* Under the calendar strategy three records that are no calendar version
\* were given in ascending slug order before a valid one, and are returned
\* behind it in descending slug order.
C16_Witness ==
    /\ call = "sort_versions_calver"
    /\ ~ latest_stable_at_beginning
    /\ version_list = << Rec(S_2023_1_5, TAG), Rec(S_garbage_branch, BRANCH),
                         Rec(LATEST, BRANCH), Rec(S_2024_01_15, TAG) >>
    /\ Slugs(ret.val) = << S_2024_01_15, LATEST, S_garbage_branch, S_2023_1_5 >>

\* C17: what determine_stable_version returns, when not None, is one of the
\* records given, its verbose_name parses and its version is no pre-release;
\* a pre-release or an unparseable record is never chosen, also when it is the
\* only tag of the list.
C17_ResultIsStableInputRecord ==
    (call = "determine_stable_version" /\ ret.val # <<>>) =>
        /\ ret.exc = ""
        /\ Len(ret.val) = 1
        /\ \E i \in 1..Len(version_list) : version_list[i] = ret.val[1]
        /\ ParsedOf(ret.val[1]) # <<>>
        /\ ~ is_prerelease(ParsedOf(ret.val[1])[1])

\* The only tag is a pre-release above every other record; a branch is returned.
C17_Witness ==
    /\ call = "determine_stable_version"
    /\ version_list = << Rec(S_2_2_0b1, TAG), Rec(S_2_1_0_rc1, BRANCH), Rec(S_2_0, BRANCH) >>
    /\ ret = [exc |-> "", val |-> << Rec(S_2_0, BRANCH) >>]

\* C18: what sort_versions_generic returns does not depend on the order of
\* its input when the slugs are distinct: the same records in another order,
\* sorted with the same flag and pattern, give the same result; valid records
\* whose parsed values compare equal stand by slug, descending, as the first
\* sort left them.
C18_IndependentOfInputOrder ==
    /\ [](call \in GenericSorts =>
             \A i, j \in 1..Len(ret.val) :
                 ( /\ i < j
                   /\ IsValidRecord(ret.val[i]) /\ IsValidRecord(ret.val[j])
                   /\ call = "sort_versions_python_packaging"
                   /\ VersionEq(Version(ret.val[i].slug).val[1], Version(ret.val[j].slug).val[1]) )
                 => LexLt(StrKey(ret.val[j].slug), StrKey(ret.val[i].slug)))
    /\ [][(call \in GenericSorts /\ call' = call
             /\ latest_stable_at_beginning' = latest_stable_at_beginning
             /\ raw_pattern' = raw_pattern
             /\ IsPermutation(version_list', version_list))
          => ret' = ret]_vars

\* "2.0" was given before "2.0.0" (equal versions) and is returned behind it.
C18_Witness ==
    /\ call = "sort_versions_python_packaging"
    /\ version_list = << Rec(S_1_9_0, TAG), Rec(S_2_0, BRANCH), Rec(S_2_0_0, TAG) >>
    /\ Slugs(ret.val) = << S_2_0_0, S_2_0, S_1_9_0 >>

====
